---- MODULE Spec2Model ----
(***************************************************************************)
(* SmartBazaar backend: the recommendation-generation request pipeline.    *)
(*                                                                         *)
(*   POST /recommend  (smartmandi_backend/routes/pricingRoutes.js)         *)
(*   POST /predict    (the demand routes file, src/unnamed/part_001)       *)
(*                                                                         *)
(* Node.js runs every callback to completion; control returns to the event *)
(* loop only at an `await`.  Each action below is one such run: the route  *)
(* handler up to its await, the continuation after an await, one timer     *)
(* callback, one 'close' / 'error' / stdout 'data' listener.               *)
(***************************************************************************)
EXTENDS Integers, Sequences, FiniteSets, TLC

\* ------------------------------------------------------------------ bounds
MaxProducts == 2        \* resolved products per request
MaxLines    == 2        \* stdout lines a predictor process writes
MaxDiagLines == 1       \* diagnostic lines ahead of the final stdout line
MaxLag      == 1        \* milliseconds passing while one recommendation is built

\* --------------------------------------------------------------- universes
Reqs     == {"r1"}
Ops      == {"pricing", "demand"}
\* req.body.products: absent, present but not an array, [], a non-empty array
Bodies   == {"missing", "notarray", "empty", "list"}
\* What spawn() does: a live child, a child whose start fails asynchronously
\* (ENOENT/EACCES: 'error' is emitted, later 'close'), a synchronous throw.
SpawnOutcomes == {"ok", "asyncfail", "throws"}
\* Lines of the predictor's stdout.  "log" is a diagnostic (non-JSON) line,
\* "" a blank line, the others are JSON documents:
\*   "ok"      {success: true,  <items>: [one per product]}
\*   "okempty" {success: true,  <items>: []}
\*   "fail"    {success: false, error: ...}
Lines     == {"log", "", "ok", "okempty", "fail"}
\* Exit code handed to the 'close' listener: 0, non-zero, null (killed by a
\* signal), or the negative errno of a failed start.
ExitCodes == {"0", "1", "null", "ENOENT"}

\* A product as the engine sees it.  Prices are in hundredths of a currency
\* unit; an attribute is <<>> when the request did not carry it and <<v>> when
\* it did.  A price too large for an integer here is <<v, e>>: v hundredths
\* times 10^e.  Products that come out of the resolver carry their id only.
Product(i) == [product_id |-> i, product_name |-> <<"product", i>>,
               category |-> <<"category", i>>,
               current_price |-> <<>>, stock_level |-> <<>>,
               demand_score |-> <<>>, days_left |-> <<>>,
               weekday |-> <<>>, season |-> <<>>]
ProductList(n) == [i \in 1..n |-> Product(i)]

VARIABLES
  pc,               \* position of the route handler: idle, mapping, predicting, done
  op,               \* which route serves the request
  mapping,          \* what the await on the resolver observed
  mapLate,          \* loser of the Promise.race still outstanding (demand)
  products,         \* mappedProducts / enrichedProducts
  proc,             \* the child process and what was done to it
  outputData,       \* accumulated stdout, as lines
  responseTimeout,  \* the per-invocation flag
  timer,            \* timeoutHandle: none, armed, fired, cleared
  responses,        \* what was written on res, in order
  pending,          \* continuations suspended at `await ....insertMany(...)`
  unhandled,        \* promise rejections nobody handles
  trace,            \* exit paths of the invocation, in the order they ran
  priceStore,       \* PriceRecommendation collection, as inserted batches
  forecastStore,    \* DemandForecast collection, as inserted batches
  body,             \* shape of req.body.products the request arrived with
  engIn,            \* fallback engine on its own: the product it is given
  engOut,           \* fallback engine on its own: <<>> or <<its recommendation>>
  par,              \* stdout protocol on its own: bytes written, delivered, parsed
  fp,               \* fallback engine on its own: the side its roundings take at a tie
  apiRes            \* <<>> or <<the last response of a store route (apply, list, analytics)>>

vars == <<pc, op, mapping, mapLate, products, proc, outputData,
          responseTimeout, timer, responses, pending, unhandled, trace,
          priceStore, forecastStore, body, engIn, engOut, par, fp, apiRes>>

NoProc == [state |-> "none", spawns |-> 0, writes |-> 0, stdin |-> <<>>,
           stdinEnded |-> FALSE,
           errored |-> FALSE, closed |-> FALSE, code |-> "none",
           signal |-> "none"]

\* The fallback engine and the stdout protocol are also exercised on their
\* own (SpecEngine, SpecParse); in the request pipeline their variables rest.
NoInput == [product_id |-> 0, product_name |-> <<>>, category |-> <<>>,
            current_price |-> <<>>, stock_level |-> <<>>,
            demand_score |-> <<>>, days_left |-> <<>>,
            weekday |-> <<>>, season |-> <<>>]
NoTie   == [priceUp |-> TRUE, changeUp |-> TRUE]
NoText  == [diag |-> <<>>, final |-> <<>>, rest |-> <<>>, acc |-> <<>>,
            chunks |-> 0, result |-> <<>>]

PipelineInitOf(R) ==
  /\ pc = [r \in R |-> "idle"]
  /\ op = [r \in R |-> "none"]
  /\ mapping = [r \in R |-> "none"]
  /\ mapLate = [r \in R |-> "none"]
  /\ products = [r \in R |-> <<>>]
  /\ proc = [r \in R |-> NoProc]
  /\ outputData = [r \in R |-> <<>>]
  /\ responseTimeout = [r \in R |-> FALSE]
  /\ timer = [r \in R |-> "none"]
  /\ responses = [r \in R |-> <<>>]
  /\ pending = [r \in R |-> {}]
  /\ unhandled = [r \in R |-> 0]
  /\ trace = [r \in R |-> <<>>]
  /\ priceStore = <<>>
  /\ forecastStore = <<>>
  /\ body = [r \in R |-> "none"]
  /\ apiRes = <<>>

PipelineInit == PipelineInitOf(Reqs)

Init ==
  /\ PipelineInit
  /\ engIn = NoInput
  /\ engOut = <<>>
  /\ par = NoText
  /\ fp = NoTie

\* ------------------------------------------------------------- the response
\* res.headersSent: true once a response has been written.
HeadersSent(r) == Len(responses[r]) > 0

Resp(status, success, error, message, note, recs, raw, origin) ==
  [status |-> status, success |-> success, error |-> error,
   message |-> message, note |-> note, recs |-> recs, raw |-> raw,
   origin |-> origin]

\* res.status(s).json(body) / res.json(body).  Express throws
\* ERR_HTTP_HEADERS_SENT when the headers have already gone out, and nothing
\* is written then; callers test HeadersSent first to take the throwing path.
Written(r, resp) == [responses EXCEPT ![r] = Append(@, resp)]


\* ------------------------------------------------------------- the clock
\* What `new Date()` / `Date.now()` can return: the millisecond counted from
\* 23:59:59.999 on Saturday 28 February, local time, with the day of the week
\* and getMonth() (0 is January) of that moment.  One millisecond later it
\* is Sunday 1 March.
Instants ==
  {[ms |-> 0, weekday |-> "Saturday", month |-> 1],
   [ms |-> 1, weekday |-> "Sunday", month |-> 2],
   [ms |-> 2, weekday |-> "Sunday", month |-> 2]}

\* The clock is read four times while one recommendation is built: for the
\* weekday, for the season, for created_at and for valid_until.  Time does
\* not run backwards between the readings and at most MaxLag milliseconds
\* pass from the first to the last.
Readings ==
  {c \in [1..4 -> Instants] :
     /\ \A i \in 1..3 : c[i].ms <= c[i + 1].ms
     /\ c[4].ms <= c[1].ms + MaxLag}

\* The request pipeline is not concerned with time: every reading there is
\* the same instant.
PipelineReading ==
  [i \in 1..4 |-> [ms |-> 0, weekday |-> "Saturday", month |-> 1]]

\* getCurrentSeason(), given what getMonth() returned.
GetCurrentSeason(getMonth) ==
  LET month == getMonth + 1
  IN  IF month >= 3 /\ month <= 5 THEN "Spring"
      ELSE IF month >= 6 /\ month <= 8 THEN "Summer"
      ELSE IF month >= 9 /\ month <= 11 THEN "Autumn"
      ELSE "Winter"

\* `product.weekday || new Date().toLocaleDateString('en-US', {weekday:
\* 'long'})` and `product.season || getCurrentSeason()`.
WeekdayFromClock(product, instant) == instant.weekday
Weekday(product, instant) ==
  IF product.weekday # <<>> THEN product.weekday[1] ELSE instant.weekday

Season(product, instant) ==
  IF product.season # <<>> THEN product.season[1]
  ELSE GetCurrentSeason(instant.month)

DayMs == 24 * 60 * 60 * 1000

\* `enrichedProducts`: the resolved products with the date context added.
Enriched(product, weekdayAt, seasonAt) ==
  [product EXCEPT !.weekday = <<Weekday(product, weekdayAt)>>,
                  !.season = <<Season(product, seasonAt)>>]

\* ------------------------------------------------------- fallback engine
FallbackConfidence == 75          \* confidence_score 0.75, in hundredths

\* `x || d`: an absent attribute and a supplied 0 both give the default.
OrDefault(x, d) == IF x = <<>> \/ x[1] = 0 THEN d ELSE x[1]

DefaultPrice  == 2500             \* 25.0, in hundredths
DefaultStock  == 100
DefaultDemand == 50
DefaultDaysShort == 7 - 2
DefaultDays   == 7

\* The three adjustments as integer factors: demand and stock in hundredths
\* (105 is `*= 1.05`, 100 is "no adjustment"), expiry in tenths (8 is
\* `*= 0.80`).  Their product is priceMultiplier in units of 1/Scale.
Scale == 100 * 100 * 10

DemandFactorInclusive(demandScore) ==
  IF demandScore >= 70 THEN 105 ELSE IF demandScore <= 30 THEN 95 ELSE 100
DemandFactor(demandScore) ==
  IF demandScore > 70 THEN 105 ELSE IF demandScore < 30 THEN 95 ELSE 100

StockFactor(stockLevel) ==
  IF stockLevel < 50 THEN 103 ELSE IF stockLevel > 200 THEN 97 ELSE 100

ExpiryFactor(daysLeft) ==
  IF daysLeft <= 2 THEN 8 ELSE IF daysLeft <= 5 THEN 9 ELSE 10

PriceMultiplier(product) ==
  DemandFactor(OrDefault(product.demand_score, DefaultDemand))
  * StockFactor(OrDefault(product.stock_level, DefaultStock))
  * ExpiryFactor(OrDefault(product.days_left, DefaultDays))

\* `reason` is assigned by every rule that fires, in the order demand, stock,
\* expiry, so the value left is the one of the last rule that fired.
FallbackReasonFirstWins(demandScore, stockLevel, daysLeft) ==
  IF demandScore > 70 THEN "High demand detected - price increase recommended"
  ELSE IF demandScore < 30 THEN "Low demand - price reduction to boost sales"
  ELSE IF stockLevel < 50
    THEN "Low stock levels - price increase to manage demand"
  ELSE IF stockLevel > 200
    THEN "High inventory levels - price reduction to clear stock"
  ELSE IF daysLeft <= 2 THEN "Product nearing expiry - urgent price reduction"
  ELSE IF daysLeft <= 5
    THEN "Product nearing expiry - price reduction to clear stock"
  ELSE "Current price is optimal"
FallbackReason(demandScore, stockLevel, daysLeft) ==
  LET initial == "Current price is optimal"
      afterDemand ==
        IF demandScore > 70
          THEN "High demand detected - price increase recommended"
        ELSE IF demandScore < 30
          THEN "Low demand - price reduction to boost sales"
        ELSE initial
      afterStock ==
        IF stockLevel < 50
          THEN "Low stock levels - price increase to manage demand"
        ELSE IF stockLevel > 200
          THEN "High inventory levels - price reduction to clear stock"
        ELSE afterDemand
  IN  IF daysLeft <= 2 THEN "Product nearing expiry - urgent price reduction"
      ELSE IF daysLeft <= 5
        THEN "Product nearing expiry - price reduction to clear stock"
      ELSE afterStock

\* Math.round(n / d) for d # 0: the nearest integer, a tie going towards
\* +infinity.  The code works in IEEE doubles, where a quotient that is an
\* exact tie in the rationals lands a hair above or below it (1.05 * 1.03 *
\* 0.80 is 0.8652000000000002), so at an exact tie either neighbour can come
\* out: `up` is the side the representation error falls on.
RoundHalf(n, d, up) ==
  LET num == IF d > 0 THEN n ELSE 0 - n
      den == IF d > 0 THEN d ELSE 0 - d
      tie == (2 * num) % den = 0 /\ num % den # 0
  IN  IF tie THEN (num \div den) + (IF up THEN 1 ELSE 0)
      ELSE (2 * num + den) \div (2 * den)

\* recommended_price, in hundredths: Math.round(currentPrice *
\* priceMultiplier * 100) / 100.
RecommendedPrice(currentPrice, multiplier, up) ==
  RoundHalf(currentPrice * multiplier, Scale, up)

\* price_change_percentage, in hundredths of a percent: priceChange is taken
\* from the product before it is rounded, and then rounded itself.
PriceChangeOfRounded(currentPrice, multiplier, up) ==
  RoundHalf((RecommendedPrice(currentPrice, multiplier, up) - currentPrice)
              * 100 * 100, currentPrice, up)
PriceChange(currentPrice, multiplier, up) ==
  RoundHalf(currentPrice * multiplier - currentPrice * Scale,
            currentPrice * (Scale \div (100 * 100)), up)

\* The decimal exponent of the price the engine works with (0 for the
\* default and for a price given in plain hundredths).
PriceExponent(x) ==
  IF x = <<>> \/ x[1] = 0 \/ Len(x) < 2 THEN 0 ELSE x[2]

Abs(n) == IF n < 0 THEN 0 - n ELSE n

\* Doubles end at Number.MAX_VALUE, 1.7976931348623157e308; a product beyond
\* it is Infinity.  With the price v x 10^306 hundredths and the multiplier
\* m / Scale, `recommendedPrice * 100` is v * m / Scale x 10^306, finite up
\* to 179.76931 x 10^306, and `recommendedPrice` itself is a hundredth of
\* that.  Prices of exponent 0 are far from either limit.
RecommendedFinite(currentPrice, multiplier, e) ==
  e = 0 \/ Abs(currentPrice * multiplier) <= 17976931

\* priceChange is (recommendedPrice - currentPrice) / currentPrice * 100: an
\* infinite recommendedPrice makes it infinite, and a zero currentPrice
\* would make it 0 / 0.
ChangeFinite(currentPrice, multiplier, e) ==
  /\ currentPrice # 0
  /\ e = 0 \/ Abs(currentPrice * multiplier) <= 1797693134

\* One element of `recommendations` built by generateFallbackRecommendations.
\* priceUp and changeUp are the sides the two roundings take at a tie.  The
\* two numbers are integers (for a price of exponent e, in units of 10^e)
\* together with whether the double they stand for is finite.
FallbackRecommendation(product, priceUp, changeUp, clock) ==
  LET currentPrice == OrDefault(product.current_price, DefaultPrice)
      stockLevel   == OrDefault(product.stock_level, DefaultStock)
      demandScore  == OrDefault(product.demand_score, DefaultDemand)
      daysLeft     == OrDefault(product.days_left, DefaultDays)
      multiplier   == PriceMultiplier(product)
      e            == PriceExponent(product.current_price)
  IN  [product_id |-> product.product_id,
       product_name |-> product.product_name,
       category |-> product.category,
       current_price |-> currentPrice,
       recommended_price |-> RecommendedPrice(currentPrice, multiplier, priceUp),
       recommended_price_finite |-> RecommendedFinite(currentPrice, multiplier, e),
       price_change_percentage |-> PriceChange(currentPrice, multiplier, changeUp),
       price_change_finite |-> ChangeFinite(currentPrice, multiplier, e),
       demand_score |-> demandScore,
       stock_level |-> stockLevel,
       days_left |-> daysLeft,
       weekday |-> Weekday(product, clock[1]),
       season |-> Season(product, clock[2]),
       confidence_score |-> FallbackConfidence,
       recommendation_reason |-> FallbackReason(demandScore, stockLevel, daysLeft),
       model_version |-> "fallback-1.0",
       created_at |-> clock[3].ms,
       valid_until |-> clock[4].ms + DayMs,
       is_applied |-> FALSE]

FallbackRecommendationsReversed(prods) ==
  [i \in 1..Len(prods) |->
     FallbackRecommendation(prods[Len(prods) + 1 - i], TRUE, TRUE, PipelineReading)]
\* products.map(product => ...): one recommendation per product, in order.
\* Resolved products carry no attributes here, so every default applies and
\* neither rounding meets a tie.
FallbackRecommendations(prods) ==
  [i \in 1..Len(prods) |->
     FallbackRecommendation(prods[i], TRUE, TRUE, PipelineReading)]

\* What the external model returns for one product ("ok" line): its own
\* model version and its own confidence.
ExternalItem(product) ==
  [product_id |-> product.product_id, model_version |-> "external",
   confidence_score |-> 90, is_applied |-> FALSE]

ExternalItems(prods) == [i \in 1..Len(prods) |-> ExternalItem(prods[i])]

FallbackNote == "Generated using fallback pricing algorithm"

\* total_recommendations: recommendations.length
TotalRecommendations(resp) == Len(resp.recs)

FallbackResponse(r, origin) ==
  Resp(200, TRUE, "", "fallback logic", FallbackNote,
       FallbackRecommendations(products[r]), <<>>, origin)

Batch(r, origin, docs) == [req |-> r, origin |-> origin, docs |-> docs]

Fallback(origin) == [kind |-> "fallback", origin |-> origin]
Success(origin)  == [kind |-> "success", origin |-> origin]
Continuations ==
  [kind : {"fallback", "success"}, origin : {"timer", "close", "error", "catch"}]

\* generateFallbackRecommendations(enrichedProducts, res) up to its await:
\* the recommendations are built and insertMany is issued.
StartFallback(r, origin) == [pending EXCEPT ![r] = @ \cup {Fallback(origin)}]

\* ------------------------------------------------------- parsing stdout
\* outputData.trim().split('\n'), last element: trim() removes the blank
\* lines at both ends, so the last line is the last non-blank one, and the
\* empty string when there is none.
LastLine(out) ==
  LET nonblank == {i \in 1..Len(out) : out[i] # ""}
  IN  IF nonblank = {} THEN ""
      ELSE out[CHOOSE i \in nonblank : \A j \in nonblank : j <= i]

\* JSON.parse(lastLine) and the fields the routes read from the result.
Parse(line) ==
  [parsed  |-> line \in {"ok", "okempty", "fail"},
   success |-> line \in {"ok", "okempty"},
   items   |-> line = "ok"]

\* ------------------------------------------------------------ exit guards
\* `if (responseTimeout || res.headersSent) return;` of 'close' and 'error'.
AlreadyHandledInverted(r) == ~(responseTimeout[r] \/ HeadersSent(r))
AlreadyHandledNoFlag(r) == HeadersSent(r)
AlreadyHandled(r) == responseTimeout[r] \/ HeadersSent(r)

\* `if (!res.headersSent)` of the timer callback.
TimerMayRespondInverted(r) == HeadersSent(r)
TimerMayRespond(r) == ~HeadersSent(r)

\* clearTimeout(timeoutHandle): disarms an armed timer, otherwise no effect.
ClearTimeoutForgotten(t) == t
ClearTimeout(t) == IF t = "armed" THEN "cleared" ELSE t

\* timeoutHandle = setTimeout(..., timeoutMs)
ArmTimeoutNever == "none"
ArmTimeout == "armed"

\* pythonProcess.kill(signal) in the timer callback.
KillSignal(o) == IF o = "pricing" THEN "SIGTERM" ELSE "SIGKILL"

\* The child after kill(sig).  SIGKILL cannot be caught.  SIGTERM can be
\* handled or ignored by the child (POSIX), or ends it at once (default
\* disposition, and always on Windows): both outcomes are possible.  A child
\* that is not running is unaffected.
AfterKill(p, sig) ==
  IF p.state # "running" THEN {[p EXCEPT !.signal = sig]}
  ELSE IF sig = "SIGKILL" THEN {[p EXCEPT !.signal = sig, !.state = "exited"]}
  ELSE {[p EXCEPT !.signal = sig, !.state = "exited"], [p EXCEPT !.signal = sig]}

\* ------------------------------------------------- 'close' listener bodies
\* pricing: which way the listener goes once past the guard.
PricingCloseBranchAlwaysFallsBack(code, out) == "fallback"
PricingCloseBranchTrustsPayload(code, out) ==
  IF code # "0" THEN "fallback"
  ELSE IF ~Parse(LastLine(out)).parsed THEN "fallback"
  ELSE IF Parse(LastLine(out)).items THEN "persist"
  ELSE "respond"
PricingCloseBranch(code, out) ==
  IF code # "0" THEN "fallback"
  ELSE IF ~Parse(LastLine(out)).parsed THEN "fallback"
  ELSE IF ~Parse(LastLine(out)).success THEN "fallback"
  ELSE IF Parse(LastLine(out)).items THEN "persist"
  ELSE "respond"

\* demand: which way the listener goes once past the guard.
DemandCloseBranchIgnoresCode(code, out) ==
  IF ~Parse(LastLine(out)).parsed THEN "parsefail"
  ELSE IF ~Parse(LastLine(out)).success THEN "modelfail"
  ELSE IF Parse(LastLine(out)).items THEN "persist"
  ELSE "respond"
DemandCloseBranch(code, out) ==
  IF code # "0" THEN "procfail"
  ELSE IF ~Parse(LastLine(out)).parsed THEN "parsefail"
  ELSE IF ~Parse(LastLine(out)).success THEN "modelfail"
  ELSE IF Parse(LastLine(out)).items THEN "persist"
  ELSE "respond"

DemandError(r, error, origin) ==
  Resp(500, FALSE, error, "", "", <<>>, <<>>, origin)


\* ============================================================== actions
\* `!products || !Array.isArray(products) || products.length === 0` negated.
ValidProductsAcceptsEmpty(b) == b \in {"list", "empty"}
ValidProducts(b) == b = "list"

\* The route handler from entry to `await mapProductInputs(products)`.
\* /predict additionally starts the 5 s timer of its Promise.race.
Receive(r, o, b) ==
  /\ pc[r] = "idle"
  /\ op' = [op EXCEPT ![r] = o]
  /\ body' = [body EXCEPT ![r] = b]
  /\ IF ~ValidProducts(b)
       THEN /\ responses' = Written(r, Resp(400, FALSE, "Products array is required",
                                             "", "", <<>>, <<>>, "validation"))
            /\ pc' = [pc EXCEPT ![r] = "done"]
            /\ UNCHANGED mapping
       ELSE /\ pc' = [pc EXCEPT ![r] = "mapping"]
            /\ mapping' = [mapping EXCEPT ![r] = "pending"]
            /\ UNCHANGED responses
  /\ UNCHANGED <<mapLate, products, proc, outputData, responseTimeout, timer,
                 pending, unhandled, trace, priceStore, forecastStore>>
  /\ UNCHANGED <<engIn, engOut, par, fp, apiRes>>

\* `mappedProducts.length === 0`
NoneResolvedNever(prods) == FALSE
NoneResolved(prods) == Len(prods) = 0

\* The child as spawn() leaves it, after stdin.write(JSON.stringify(inputData))
\* and stdin.end(); `stdin` is the product list of inputData.
SpawnedProcStdinOpen(sp, prods) ==
  [state |-> CASE sp = "ok" -> "running"
               [] sp = "asyncfail" -> "failed"
               [] OTHER -> "threw",
   spawns |-> 1,
   writes |-> IF sp = "throws" THEN 0 ELSE 1,
   stdin |-> IF sp = "throws" THEN <<>> ELSE prods,
   stdinEnded |-> FALSE,
   errored |-> FALSE, closed |-> FALSE, code |-> "none", signal |-> "none"]
SpawnedProc(sp, prods) ==
  [state |-> CASE sp = "ok" -> "running"
               [] sp = "asyncfail" -> "failed"
               [] OTHER -> "threw",
   spawns |-> 1,
   writes |-> IF sp = "throws" THEN 0 ELSE 1,
   stdin |-> IF sp = "throws" THEN <<>> ELSE prods,
   stdinEnded |-> sp # "throws",
   errored |-> FALSE, closed |-> FALSE, code |-> "none", signal |-> "none"]

\* The resolver returned `prods`: the handler runs on to the end of its inner
\* try block (spawn, stdin, listeners, setTimeout) or into its inner catch.
MappingResolve(r, prods, sp) ==
  /\ pc[r] = "mapping"
  /\ mapping' = [mapping EXCEPT ![r] = "resolved"]
  /\ mapLate' = [mapLate EXCEPT ![r] = IF op[r] = "demand" THEN "timer" ELSE "none"]
  /\ products' = [products EXCEPT ![r] =
        IF op[r] = "pricing"
          THEN [i \in 1..Len(prods) |->
                  Enriched(prods[i], PipelineReading[1], PipelineReading[2])]
          ELSE prods]
  /\ IF NoneResolved(prods)
       THEN /\ responses' = Written(r, Resp(400, FALSE,
                                "No valid products found after mapping",
                                "", "", <<>>, <<>>, "mapping"))
            /\ pc' = [pc EXCEPT ![r] = "done"]
            /\ UNCHANGED <<proc, timer, pending, trace>>
       ELSE /\ pc' = [pc EXCEPT ![r] = "predicting"]
            /\ proc' = [proc EXCEPT ![r] = SpawnedProc(sp, products'[r])]
            /\ IF sp = "throws"
                 THEN /\ trace' = [trace EXCEPT ![r] = Append(@, "catch")]
                      /\ timer' = [timer EXCEPT ![r] = ClearTimeout(@)]
                      /\ IF op[r] = "pricing"
                           THEN /\ pending' = StartFallback(r, "catch")
                                /\ UNCHANGED responses
                           ELSE /\ responses' = Written(r,
                                      DemandError(r, "Failed to execute Python script", "catch"))
                                /\ UNCHANGED pending
                 ELSE /\ timer' = [timer EXCEPT ![r] = ArmTimeout]
                      /\ UNCHANGED <<responses, pending, trace>>
  /\ UNCHANGED <<op, outputData, responseTimeout, unhandled, priceStore, forecastStore>>
  /\ UNCHANGED <<body, engIn, engOut, par, fp, apiRes>>

\* mapProductInputs rejected.  /recommend: the outer catch.  /predict: the
\* catch around the Promise.race.
MappingReject(r) ==
  /\ pc[r] = "mapping"
  /\ mapping' = [mapping EXCEPT ![r] = "rejected"]
  /\ mapLate' = [mapLate EXCEPT ![r] = IF op[r] = "demand" THEN "timer" ELSE "none"]
  /\ pc' = [pc EXCEPT ![r] = "done"]
  /\ responses' = Written(r,
       IF op[r] = "pricing"
         THEN Resp(500, FALSE, "Failed to generate price recommendations",
                   "rejected", "", <<>>, <<>>, "mapping")
         ELSE Resp(400, FALSE, "Product mapping failed",
                   "rejected", "", <<>>, <<>>, "mapping"))
  /\ UNCHANGED <<op, products, proc, outputData, responseTimeout, timer,
                 pending, unhandled, trace, priceStore, forecastStore>>
  /\ UNCHANGED <<body, engIn, engOut, par, fp, apiRes>>

\* /predict only: the 5 s timer of the Promise.race rejects first.
MappingTimeout(r) ==
  /\ pc[r] = "mapping"
  /\ op[r] = "demand"
  /\ mapping' = [mapping EXCEPT ![r] = "timeout"]
  /\ mapLate' = [mapLate EXCEPT ![r] = "call"]
  /\ pc' = [pc EXCEPT ![r] = "done"]
  /\ responses' = Written(r, Resp(400, FALSE, "Product mapping failed",
                                  "Product mapping timeout", "", <<>>, <<>>, "mapping"))
  /\ UNCHANGED <<op, products, proc, outputData, responseTimeout, timer,
                 pending, unhandled, trace, priceStore, forecastStore>>
  /\ UNCHANGED <<body, engIn, engOut, par, fp, apiRes>>

MappingLoserAnswers(r) ==
  /\ mapLate[r] # "none"
  /\ mapLate' = [mapLate EXCEPT ![r] = "none"]
  /\ responses' = Written(r, Resp(400, FALSE, "Product mapping failed",
                                  "Product mapping timeout", "", <<>>, <<>>, "mapping"))
  /\ UNCHANGED <<pc, op, mapping, products, proc, outputData, responseTimeout,
                 timer, pending, unhandled, trace, priceStore, forecastStore>>
  /\ UNCHANGED <<body, engIn, engOut, par, fp, apiRes>>
\* The loser of the Promise.race settles: the race is already decided and
\* nothing observes it.
MappingLoser(r) ==
  /\ mapLate[r] # "none"
  /\ mapLate' = [mapLate EXCEPT ![r] = "none"]
  /\ UNCHANGED <<pc, op, mapping, products, proc, outputData, responseTimeout,
                 timer, responses, pending, unhandled, trace, priceStore,
                 forecastStore>>
  /\ UNCHANGED <<body, engIn, engOut, par, fp, apiRes>>

\* stdout 'data' listener: outputData += data.toString()
StdoutData(r, line) ==
  /\ pc[r] = "predicting"
  /\ proc[r].state \in {"running", "exited"}
  /\ ~proc[r].closed
  /\ Len(outputData[r]) < MaxLines
  /\ outputData' = [outputData EXCEPT ![r] = Append(@, line)]
  /\ UNCHANGED <<pc, op, mapping, mapLate, products, proc, responseTimeout,
                 timer, responses, pending, unhandled, trace, priceStore,
                 forecastStore>>
  /\ UNCHANGED <<body, engIn, engOut, par, fp, apiRes>>

\* `responseTimeout = true`: the flag is a `let` of the handler's invocation.
RaiseTimeoutFlagOfAll(r) == [q \in DOMAIN responseTimeout |-> TRUE]
RaiseTimeoutFlag(r) == [responseTimeout EXCEPT ![r] = TRUE]

\* The setTimeout callback.
TimerFire(r) ==
  /\ timer[r] = "armed"
  /\ timer' = [timer EXCEPT ![r] = "fired"]
  /\ responseTimeout' = RaiseTimeoutFlag(r)
  /\ \E p \in AfterKill(proc[r], KillSignal(op[r])) :
        proc' = [proc EXCEPT ![r] = p]
  /\ trace' = [trace EXCEPT ![r] = Append(@, "timer")]
  /\ IF TimerMayRespond(r)
       THEN IF op[r] = "pricing"
              THEN /\ pending' = StartFallback(r, "timer")
                   /\ UNCHANGED responses
              ELSE /\ responses' = Written(r,
                         DemandError(r, "Model prediction timeout", "timer"))
                   /\ UNCHANGED pending
       ELSE UNCHANGED <<responses, pending>>
  /\ UNCHANGED <<pc, op, mapping, mapLate, products, outputData, unhandled,
                 priceStore, forecastStore>>
  /\ UNCHANGED <<body, engIn, engOut, par, fp, apiRes>>

\* Exit codes a 'close' can carry, given what became of the child.
CloseCodes(p) ==
  CASE p.state = "running" -> {"0", "1", "null"}
    [] p.state = "exited"  -> {"null"}
    [] OTHER               -> {"ENOENT"}

\* The 'close' listener, up to its first await or its end.
ProcClose(r, code) ==
  /\ pc[r] = "predicting"
  /\ ~proc[r].closed
  /\ \/ proc[r].state \in {"running", "exited"}
     \/ proc[r].state = "failed" /\ proc[r].errored
  /\ code \in CloseCodes(proc[r])
  /\ proc' = [proc EXCEPT ![r].closed = TRUE, ![r].code = code,
                          ![r].state = IF @ = "running" THEN "exited" ELSE @]
  /\ timer' = [timer EXCEPT ![r] = ClearTimeout(@)]
  /\ trace' = [trace EXCEPT ![r] = Append(@, "close")]
  /\ IF AlreadyHandled(r)
       THEN UNCHANGED <<responses, pending>>
       ELSE IF op[r] = "pricing"
         THEN CASE PricingCloseBranch(code, outputData[r]) = "fallback" ->
                     /\ pending' = StartFallback(r, "close")
                     /\ UNCHANGED responses
                [] PricingCloseBranch(code, outputData[r]) = "persist" ->
                     /\ pending' = [pending EXCEPT ![r] = @ \cup {Success("close")}]
                     /\ UNCHANGED responses
                [] OTHER ->
                     /\ responses' = Written(r, Resp(200, TRUE, "", "external", "",
                                                     <<>>, <<>>, "close"))
                     /\ UNCHANGED pending
         ELSE CASE DemandCloseBranch(code, outputData[r]) = "procfail" ->
                     /\ responses' = Written(r,
                           DemandError(r, "Model prediction failed", "close"))
                     /\ UNCHANGED pending
                [] DemandCloseBranch(code, outputData[r]) = "parsefail" ->
                     /\ responses' = Written(r,
                           Resp(500, FALSE, "Failed to parse model response", "",
                                "", <<>>, outputData[r], "close"))
                     /\ UNCHANGED pending
                [] DemandCloseBranch(code, outputData[r]) = "modelfail" ->
                     /\ responses' = Written(r,
                           DemandError(r, "Model prediction failed", "close"))
                     /\ UNCHANGED pending
                [] DemandCloseBranch(code, outputData[r]) = "persist" ->
                     /\ pending' = [pending EXCEPT ![r] = @ \cup {Success("close")}]
                     /\ UNCHANGED responses
                [] OTHER ->
                     /\ responses' = Written(r, Resp(200, TRUE, "", "external", "",
                                                     <<>>, <<>>, "close"))
                     /\ UNCHANGED pending
  /\ UNCHANGED <<pc, op, mapping, mapLate, products, outputData,
                 responseTimeout, unhandled, priceStore, forecastStore>>
  /\ UNCHANGED <<body, engIn, engOut, par, fp, apiRes>>

\* The 'error' listener: the child could not be started.
ProcError(r) ==
  /\ pc[r] = "predicting"
  /\ proc[r].state = "failed"
  /\ ~proc[r].errored
  /\ ~proc[r].closed
  /\ proc' = [proc EXCEPT ![r].errored = TRUE]
  /\ timer' = [timer EXCEPT ![r] = ClearTimeout(@)]
  /\ trace' = [trace EXCEPT ![r] = Append(@, "error")]
  /\ IF AlreadyHandled(r)
       THEN UNCHANGED <<responses, pending>>
       ELSE IF op[r] = "pricing"
         THEN /\ pending' = StartFallback(r, "error")
              /\ UNCHANGED responses
         ELSE /\ responses' = Written(r,
                    DemandError(r, "Failed to start Python process", "error"))
              /\ UNCHANGED pending
  /\ UNCHANGED <<pc, op, mapping, mapLate, products, outputData,
                 responseTimeout, unhandled, priceStore, forecastStore>>
  /\ UNCHANGED <<body, engIn, engOut, par, fp, apiRes>>

\* What is written after `try { await ....insertMany(docs) } catch (dbError)
\* { log }`: the catch swallows a rejection, so the body does not depend on
\* `ok`.
ExternalResponse(r, origin) ==
  Resp(200, TRUE, "", "external", "", ExternalItems(products[r]), <<>>, origin)

PersistedResponseSurfacesFailure(r, c, ok) ==
  IF ~ok THEN Resp(500, FALSE, "Failed to generate fallback recommendations",
                   "", "", <<>>, <<>>, c.origin)
  ELSE IF c.kind = "fallback" THEN FallbackResponse(r, c.origin)
  ELSE ExternalResponse(r, c.origin)
PersistedResponse(r, c, ok) ==
  IF c.kind = "fallback" THEN FallbackResponse(r, c.origin)
  ELSE ExternalResponse(r, c.origin)

\* An `await ....insertMany(docs)` settles (ok: resolved, ~ok: rejected and
\* caught by the try around it) and the code after it runs.
InsertDone(r, c, ok) ==
  /\ c \in pending[r]
  /\ IF c.kind = "fallback"
       THEN \* generateFallbackRecommendations after its await
            /\ priceStore' = IF ok
                  THEN Append(priceStore,
                              Batch(r, c.origin, FallbackRecommendations(products[r])))
                  ELSE priceStore
            /\ UNCHANGED forecastStore
            /\ pending' = [pending EXCEPT ![r] = @ \ {c}]
            /\ IF ~HeadersSent(r)
                 THEN /\ responses' = Written(r, PersistedResponse(r, c, ok))
                      /\ UNCHANGED unhandled
                 ELSE \* res.json throws, so does res.status(500).json in the catch
                      /\ unhandled' = [unhandled EXCEPT ![r] = @ + 1]
                      /\ UNCHANGED responses
       ELSE IF op[r] = "pricing"
         THEN \* 'close' listener of /recommend after its await
            /\ priceStore' = IF ok
                  THEN Append(priceStore, Batch(r, c.origin, ExternalItems(products[r])))
                  ELSE priceStore
            /\ UNCHANGED <<forecastStore, unhandled>>
            /\ IF ~HeadersSent(r)
                 THEN /\ responses' = Written(r, PersistedResponse(r, c, ok))
                      /\ pending' = [pending EXCEPT ![r] = @ \ {c}]
                 ELSE \* res.json throws into catch (parseError): fallback
                      /\ pending' = [pending EXCEPT ![r] = (@ \ {c}) \cup {Fallback(c.origin)}]
                      /\ UNCHANGED responses
         ELSE \* 'close' listener of /predict after its await
            /\ forecastStore' = IF ok
                  THEN Append(forecastStore, Batch(r, c.origin, ExternalItems(products[r])))
                  ELSE forecastStore
            /\ UNCHANGED priceStore
            /\ pending' = [pending EXCEPT ![r] = @ \ {c}]
            /\ IF ~HeadersSent(r)
                 THEN /\ responses' = Written(r, PersistedResponse(r, c, ok))
                      /\ UNCHANGED unhandled
                 ELSE /\ unhandled' = [unhandled EXCEPT ![r] = @ + 1]
                      /\ UNCHANGED responses
  /\ UNCHANGED <<pc, op, mapping, mapLate, products, proc, outputData,
                 responseTimeout, timer, trace>>
  /\ UNCHANGED <<body, engIn, engOut, par, fp, apiRes>>

Next ==
  \E r \in Reqs :
    \/ \E o \in Ops, b \in Bodies : Receive(r, o, b)
    \/ \E n \in 0..MaxProducts, sp \in SpawnOutcomes :
          MappingResolve(r, ProductList(n), sp)
    \/ MappingReject(r)
    \/ MappingTimeout(r)
    \/ MappingLoser(r)
    \/ \E line \in Lines : StdoutData(r, line)
    \/ TimerFire(r)
    \/ \E code \in ExitCodes : ProcClose(r, code)
    \/ ProcError(r)
    \/ \E c \in Continuations, ok \in BOOLEAN : InsertDone(r, c, ok)

Spec == Init /\ [][Next]_vars

\* ------------------------------------------------- the other store routes
\* A stored recommendation is addressed by the place insertMany gave it:
\* <<batch, position in the batch>>.  The identifiers a client can send are
\* those places, whether or not something is stored there yet (one request
\* inserts two batches at most).
RecommendationIds == (1..2) \X (1..MaxProducts)

Matches(id) ==
  /\ id[1] <= Len(priceStore)
  /\ id[2] <= Len(priceStore[id[1]].docs)

StoredDocs == {id \in RecommendationIds : Matches(id)}

StoredDoc(id) == priceStore[id[1]].docs[id[2]]

\* The update document of the apply route: { is_applied: true }.
ApplyUpdateForgets(doc) == doc
ApplyUpdateToggles(doc) == [doc EXCEPT !.is_applied = ~@]
ApplyUpdate(doc) == [doc EXCEPT !.is_applied = TRUE]

\* findByIdAndUpdate(id, update, { new: true }) on the collection.
ApplyAllInBatch(id) ==
  [priceStore EXCEPT ![id[1]].docs = [i \in 1..Len(@) |-> ApplyUpdate(@[i])]]
FindByIdAndUpdate(id) ==
  [priceStore EXCEPT ![id[1]].docs[id[2]] = ApplyUpdate(@)]

\* A response of one of these routes; `query` keeps the query string it
\* answers and `answered` whether the store operation behind it resolved.
ApiResp(route, status, success, error, id, data, note, answered, query) ==
  [route |-> route, status |-> status, success |-> success, error |-> error,
   id |-> id, data |-> data, note |-> note, answered |-> answered,
   query |-> query]

\* PATCH /:recommendationId/apply.  ok: the store answered; ~ok: the update
\* rejected (store unreachable, identifier the store cannot read) and the
\* catch answers.
Apply(id, ok) ==
  /\ IF ~ok
       THEN /\ apiRes' = <<ApiResp("apply", 500, FALSE,
                                   "Failed to apply price recommendation",
                                   <<id>>, <<>>, "", FALSE, <<>>)>>
            /\ UNCHANGED priceStore
       ELSE IF Matches(id)
         THEN /\ priceStore' = FindByIdAndUpdate(id)
              /\ apiRes' = <<ApiResp("apply", 200, TRUE, "", <<id>>,
                                     <<FindByIdAndUpdate(id)[id[1]].docs[id[2]]>>,
                                     "Price recommendation applied successfully",
                                     TRUE, <<>>)>>
         ELSE /\ apiRes' = <<ApiResp("apply", 404, FALSE,
                                     "Recommendation not found", <<id>>, <<>>, "",
                                     TRUE, <<>>)>>
              /\ UNCHANGED priceStore
  /\ UNCHANGED <<pc, op, mapping, mapLate, products, proc, outputData,
                 responseTimeout, timer, responses, pending, unhandled, trace,
                 forecastStore, body, engIn, engOut, par, fp>>

\* ------------------------------------------------------ the reading routes
\* req.query of a reading route: a category filter, the grouping of
\* /analytics, and the instant the date window opens at (start_date of the
\* analytics routes, now - days of /optimization-summary), in milliseconds.
NoQuery == [category |-> <<>>, group_by |-> <<>>, from |-> <<>>]

\* No parameter, or one of: ?category=..., ?group_by=product, a window that
\* opens a day after the recommendations were made.
Queries ==
  {NoQuery,
   [NoQuery EXCEPT !.category = <<Product(1).category>>],
   [NoQuery EXCEPT !.group_by = <<"product">>],
   [NoQuery EXCEPT !.from = <<DayMs>>]}

\* A field of a stored document, <<>> when the document does not have it.
Field(doc, f) == IF f \in DOMAIN doc THEN <<doc[f]>> ELSE <<>>

\* The places of the documents of a collection.
DocIds(store) ==
  UNION {{<<b, k>> : k \in 1..Len(store[b].docs)} : b \in 1..Len(store)}

\* `days = 7` of /optimization-summary: the window opens a week before now.
DefaultWindow == 0 - 7 * DayMs

\* { $match: matchFilter }: a filter on a field the document does not have
\* does not match it.
WindowStart(route, q) ==
  IF route = "optimization-summary" /\ q.from = <<>> THEN <<DefaultWindow>>
  ELSE q.from

DateField(route) == IF route = "demand-analytics" THEN "forecast_date" ELSE "created_at"

Match(store, route, q) ==
  {id \in DocIds(store) :
     LET doc == store[id[1]].docs[id[2]]
     IN  /\ q.category = <<>> \/ Field(doc, "category") = q.category
         /\ WindowStart(route, q) = <<>>
              \/ /\ Field(doc, DateField(route)) # <<>>
                 /\ Field(doc, DateField(route))[1] >= WindowStart(route, q)[1]}

\* groupField of the pricing analytics; the demand analytics always group by
\* category.
GroupField(route, q) ==
  IF route = "analytics" /\ q.group_by = <<"product">> THEN "product_id"
  ELSE "category"

\* The _id of the group a document falls into: the value of the group
\* field, a product id written as <<"product", id>>; <<>> (null) for a
\* document without the field.
GroupKey(doc, f) ==
  IF f \notin DOMAIN doc THEN <<>>
  ELSE IF f = "product_id" THEN <<<<"product", doc[f]>>>>
  ELSE <<doc[f]>>

\* The $group stages, as the set of groups with their counts (the order
\* $sort gives them is left out, and so are the averages).
Groups(store, route, q) ==
  LET matched == Match(store, route, q)
      key(id) == GroupKey(store[id[1]].docs[id[2]], GroupField(route, q))
      keys    == {key(id) : id \in matched}
      of(k)   == {id \in matched : key(id) = k}
  IN  {[_id |-> k,
        total |-> Cardinality(of(k)),
        applied |-> Cardinality({id \in of(k) : store[id[1]].docs[id[2]].is_applied})]
         : k \in keys}

\* /optimization-summary: summary[0] || { total_products: 0, ... }.
Summary(store, route, q) ==
  LET matched == Match(store, route, q)
  IN  [total_products |-> Cardinality(matched),
       total_applied |-> Cardinality({id \in matched :
                                       store[id[1]].docs[id[2]].is_applied})]

\* What the catch blocks of the analytics routes answer with.
MockNote == "Mock data - database not available"

MockData(route) ==
  CASE route = "analytics" ->
         <<[groups |-> {[_id |-> <<<<"Dairy">>>>, total |-> 45, applied |-> 32],
                        [_id |-> <<<<"Bakery">>>>, total |-> 38, applied |-> 25]}]>>
    [] route = "optimization-summary" ->
         <<[total_products |-> 125, total_applied |-> 89]>>
    [] OTHER ->
         <<[groups |-> {[_id |-> <<<<"Dairy">>>>, forecast_count |-> 35],
                        [_id |-> <<<<"Bakery">>>>, forecast_count |-> 30]}]>>

\* The collection a route reads.
StoreOf(route) == IF route = "demand-analytics" THEN forecastStore ELSE priceStore

\* The body of the try block once the aggregate resolved.
AggregateResponse(route, q) ==
  ApiResp(route, 200, TRUE, "", <<>>,
          IF route = "optimization-summary"
            THEN <<Summary(StoreOf(route), route, q)>>
            ELSE <<[groups |-> Groups(StoreOf(route), route, q)]>>,
          "", TRUE, q)

\* The catch block of an analytics route.
AnalyticsFailureUnmarked(route, q) ==
  ApiResp(route, 200, TRUE, "", <<>>, MockData(route), "", FALSE, q)
AnalyticsFailure(route, q) ==
  ApiResp(route, 200, TRUE, "", <<>>, MockData(route), MockNote, FALSE, q)

\* GET / (pricing), GET /analytics, GET /optimization-summary (pricing) and
\* GET /analytics (demand): find, countDocuments and aggregate read the
\* collection.  When the store does not answer, the list route answers 500
\* and the analytics routes answer with mock data.
AnalyticsRoutes == {"analytics", "optimization-summary", "demand-analytics"}
\* The reading routes of the pricing router.
StoreRoutes == {"list", "analytics", "optimization-summary"}

StoreRead(route, q, ok) ==
  /\ apiRes' = <<IF route = "list"
                   THEN IF ok
                     THEN ApiResp(route, 200, TRUE, "", <<>>, <<>>, "", TRUE, NoQuery)
                     ELSE ApiResp(route, 500, FALSE,
                                  "Failed to fetch price recommendations", <<>>,
                                  <<>>, "", FALSE, NoQuery)
                 ELSE IF ok THEN AggregateResponse(route, q)
                 ELSE AnalyticsFailure(route, q)>>
  /\ UNCHANGED <<pc, op, mapping, mapLate, products, proc, outputData,
                 responseTimeout, timer, responses, pending, unhandled, trace,
                 priceStore, forecastStore, body, engIn, engOut, par, fp>>

StoreNext ==
  \/ \E id \in RecommendationIds, ok \in BOOLEAN : Apply(id, ok)
  \/ \E route \in StoreRoutes, ok \in BOOLEAN : StoreRead(route, NoQuery, ok)

\* The pricing pipeline together with the routes that work on what it stored.
SpecStore == Init /\ [][Next \/ StoreNext]_vars

\* The analytics routes with their query strings, reading what a request
\* with a well-formed body and as many products as can be resolved has
\* stored, while recommendations are being applied.
ReadsPipeline ==
  \E r \in Reqs :
    \/ \E o \in Ops : Receive(r, o, "list")
    \/ \E sp \in {"ok", "asyncfail"} :
          MappingResolve(r, ProductList(MaxProducts), sp)
    \/ \E line \in {"ok", "fail"} : StdoutData(r, line)
    \/ TimerFire(r)
    \/ \E code \in ExitCodes : ProcClose(r, code)
    \/ ProcError(r)
    \/ \E c \in Continuations, ok \in BOOLEAN : InsertDone(r, c, ok)

ReadsNext ==
  \/ ReadsPipeline
  \/ \E id \in RecommendationIds, ok \in BOOLEAN : Apply(id, ok)
  \/ \E route \in AnalyticsRoutes, q \in Queries, ok \in BOOLEAN :
        StoreRead(route, q, ok)

SpecReads == Init /\ [][ReadsNext]_vars

\* --------------------------------------------------- two requests in flight
\* Two invocations of the handlers, interleaved at their awaits and
\* callbacks; each brings its own product.
Pair == {"r1", "r2"}
PairProducts(r) == IF r = "r1" THEN <<Product(1)>> ELSE <<Product(2)>>
PairLines == {"ok", "fail"}

PairInit ==
  /\ PipelineInitOf(Pair)
  /\ engIn = NoInput
  /\ engOut = <<>>
  /\ par = NoText
  /\ fp = NoTie

PairNext ==
  \E r \in Pair :
    \/ \E o \in Ops : Receive(r, o, "list")
    \/ \E sp \in SpawnOutcomes : MappingResolve(r, PairProducts(r), sp)
    \/ MappingReject(r)
    \/ MappingTimeout(r)
    \/ MappingLoser(r)
    \/ \E line \in PairLines : StdoutData(r, line)
    \/ TimerFire(r)
    \/ \E code \in ExitCodes : ProcClose(r, code)
    \/ ProcError(r)
    \/ \E c \in Continuations, ok \in BOOLEAN : InsertDone(r, c, ok)

SpecPair == PairInit /\ [][PairNext]_vars

\* The armed timer eventually fires unless cleared, and every insertMany
\* eventually settles.
Fairness ==
  \A r \in Reqs :
    /\ WF_vars(TimerFire(r))
    /\ WF_vars(\E c \in Continuations, ok \in BOOLEAN : InsertDone(r, c, ok))

LiveSpec == Init /\ [][Next]_vars /\ Fairness


\* ================================================= the stdout protocol
\* The bytes a predictor writes, how 'data' events cut them into chunks, and
\* what the 'close' listener makes of the accumulated string.
\*
\* Bytes: "n" is LF, "r" is CR, "x" an ASCII character, "L" "C" the lead and
\* continuation byte of one two-byte UTF-8 character.  A JSON document is
\* "{" k "}", k standing for its content: "T" {success: true, items: [...]},
\* "E" {success: true, items: []}, "F" {success: false}.
\* Characters: the same, plus "u" (the decoded two-byte character) and "?"
\* (U+FFFD, which toString() yields for each byte of a character cut by a
\* chunk boundary).
Doc(k) == <<"{", k, "}">>
DiagTexts  == {<<>>, <<"x">>, <<"L", "C">>, Doc("T"), Doc("F"), <<"{", "T">>}
FinalTexts == {Doc("T"), Doc("E"), Doc("F"), <<"x">>, <<"{", "T">>, <<"L", "C">>}

DiagSeqs == UNION {[1..n -> DiagTexts] : n \in 0..MaxDiagLines}

Newline(crlf) == IF crlf THEN <<"r", "n">> ELSE <<"n">>

RECURSIVE JoinLines(_, _)
JoinLines(ls, crlf) ==
  IF ls = <<>> THEN <<>> ELSE Head(ls) \o Newline(crlf) \o JoinLines(Tail(ls), crlf)

\* What the process writes: the diagnostic lines, then the final line, with
\* or without a line terminator after it.
StdoutBytes(diag, final, crlf, trailing) ==
  JoinLines(diag, crlf) \o final \o (IF trailing THEN Newline(crlf) ELSE <<>>)

\* data.toString(): UTF-8 decoding of one chunk on its own.
RECURSIVE Decode(_)
Decode(b) ==
  IF b = <<>> THEN <<>>
  ELSE IF b[1] = "L"
    THEN IF Len(b) >= 2 /\ b[2] = "C"
           THEN <<"u">> \o Decode(SubSeq(b, 3, Len(b)))
           ELSE <<"?">> \o Decode(Tail(b))
  ELSE IF b[1] = "C" THEN <<"?">> \o Decode(Tail(b))
  ELSE <<b[1]>> \o Decode(Tail(b))

Whitespace == {"n", "r"}

\* String.prototype.trim()
TrimNone(str) == str
Trim(str) ==
  LET solid == {i \in 1..Len(str) : str[i] \notin Whitespace}
  IN  IF solid = {} THEN <<>>
      ELSE SubSeq(str, CHOOSE i \in solid : \A j \in solid : i <= j,
                       CHOOSE i \in solid : \A j \in solid : j <= i)

\* str.split('\n'), last element
LastOfSplit(str) ==
  LET nl == {i \in 1..Len(str) : str[i] = "n"}
  IN  IF nl = {} THEN str
      ELSE SubSeq(str, (CHOOSE i \in nl : \A j \in nl : j <= i) + 1, Len(str))

\* outputData.trim().split('\n') and lines[lines.length - 1]
LastLineOfText(str) == LastOfSplit(Trim(str))

\* The line as JSON.parse sees it (white space around a document is
\* allowed), named as in Lines.
Token(line) ==
  CASE Trim(line) = Doc("T") -> "ok"
    [] Trim(line) = Doc("E") -> "okempty"
    [] Trim(line) = Doc("F") -> "fail"
    [] Trim(line) = <<>>     -> ""
    [] OTHER                 -> "log"

\* stdout 'data' listener on the first k bytes still to come.
DataChunk(k) ==
  /\ par.result = <<>>
  /\ k \in 1..Len(par.rest)
  /\ par' = [par EXCEPT !.acc = @ \o Decode(SubSeq(par.rest, 1, k)),
                        !.rest = SubSeq(@, k + 1, Len(@)),
                        !.chunks = @ + 1]
  /\ UNCHANGED <<pc, op, mapping, mapLate, products, proc, outputData,
                 responseTimeout, timer, responses, pending, unhandled, trace,
                 priceStore, forecastStore, body, engIn, engOut, fp, apiRes>>

\* 'close' with code 0 once everything was delivered: the way each route
\* goes on the accumulated output.
CloseParsed ==
  /\ par.result = <<>>
  /\ par.final # <<>>
  /\ par.rest = <<>>
  /\ par' = [par EXCEPT !.result =
        <<[pricing |-> PricingCloseBranch("0", <<Token(LastLineOfText(par.acc))>>),
           demand  |-> DemandCloseBranch("0", <<Token(LastLineOfText(par.acc))>>)]>>]
  /\ UNCHANGED <<pc, op, mapping, mapLate, products, proc, outputData,
                 responseTimeout, timer, responses, pending, unhandled, trace,
                 priceStore, forecastStore, body, engIn, engOut, fp, apiRes>>

ParseInit ==
  /\ PipelineInit
  /\ engIn = NoInput
  /\ engOut = <<>>
  /\ fp = NoTie
  /\ \E d \in DiagSeqs, f \in FinalTexts, crlf \in BOOLEAN, trailing \in BOOLEAN :
        par = [diag |-> d, final |-> f, rest |-> StdoutBytes(d, f, crlf, trailing),
               acc |-> <<>>, chunks |-> 0, result |-> <<>>]

ParseNext ==
  \/ \E k \in 1..Len(par.rest) : DataChunk(k)
  \/ CloseParsed

SpecParse == ParseInit /\ [][ParseNext]_vars

\* ------------------------------------------- the fallback engine on its own
\* generateFallbackRecommendations applied to one product whose attributes
\* range over absent, zero, negative and the values around every threshold.
Opt(S) == {<<>>} \cup {<<v>> : v \in S}
EnginePrices  == Opt({0 - 4000, 0, 1, 333, 3750, 4000})
EngineDemands == Opt({0 - 5, 0, 29, 30, 31, 69, 70, 71, 80})
EngineStocks  == Opt({0 - 1, 0, 30, 49, 50, 51, 199, 200, 201})
EngineDays    == Opt({0 - 1, 0, 1, 2, 3, 4, 5, 6, 7})

EngineInit ==
  /\ PipelineInit
  /\ par = NoText
  /\ engOut = <<>>
  /\ fp \in [priceUp : BOOLEAN, changeUp : BOOLEAN]
  /\ engIn \in [product_id : {1}, product_name : {<<"product", 1>>},
                category : {<<"category", 1>>},
                current_price : EnginePrices,
                stock_level : EngineStocks, demand_score : EngineDemands,
                days_left : EngineDays,
                weekday : {<<"Friday">>}, season : {<<"Winter">>}]

RunFallback ==
  /\ engOut = <<>>
  /\ \E clock \in Readings :
       engOut' = <<FallbackRecommendation(engIn, fp.priceUp, fp.changeUp, clock)>>
  /\ UNCHANGED <<pc, op, mapping, mapLate, products, proc, outputData,
                 responseTimeout, timer, responses, pending, unhandled, trace,
                 priceStore, forecastStore, body, engIn, par, fp, apiRes>>

EngineNext == RunFallback

SpecEngine == EngineInit /\ [][EngineNext]_vars

\* The engine run twice on the same product, each run at its own time.
RunAgain ==
  /\ Len(engOut) = 1
  /\ \E clock \in Readings :
       engOut' = Append(engOut,
                        FallbackRecommendation(engIn, fp.priceUp, fp.changeUp, clock))
  /\ UNCHANGED <<pc, op, mapping, mapLate, products, proc, outputData,
                 responseTimeout, timer, responses, pending, unhandled, trace,
                 priceStore, forecastStore, body, engIn, par, fp, apiRes>>

TwiceInit ==
  /\ PipelineInit
  /\ par = NoText
  /\ engOut = <<>>
  /\ fp \in [priceUp : BOOLEAN, changeUp : BOOLEAN]
  /\ engIn \in [product_id : {1}, product_name : {<<"product", 1>>},
                category : {<<"category", 1>>},
                current_price : Opt({333, 3750, 4000}),
                stock_level : Opt({30}), demand_score : Opt({20, 80}),
                days_left : Opt({1, 4}),
                weekday : Opt({"Friday"}), season : Opt({"Winter"})]

TwiceNext == RunFallback \/ RunAgain

SpecTwice == TwiceInit /\ [][TwiceNext]_vars

\* The same engine over the whole range of a double: prices of ordinary size
\* and prices of the order of 10^304 to 10^307.
RangePrices == Opt({0 - 4000, 0, 1, 4000})
               \cup {<<v, 306>> : v \in {0 - 4000, 0, 1, 179, 180, 333}}

RangeInit ==
  /\ PipelineInit
  /\ par = NoText
  /\ engOut = <<>>
  /\ fp \in [priceUp : BOOLEAN, changeUp : BOOLEAN]
  /\ engIn \in [product_id : {1}, product_name : {<<"product", 1>>},
                category : {<<"category", 1>>},
                weekday : {<<"Friday">>}, season : {<<"Winter">>},
                current_price : RangePrices,
                stock_level : Opt({0 - 1, 0, 30, 100}),
                demand_score : Opt({0 - 5, 0, 50, 80}),
                days_left : Opt({0 - 1, 0, 1, 7})]

SpecRange == RangeInit /\ [][EngineNext]_vars

\* ============================================================ properties
\* The request started a predictor invocation (it reached the spawn).
Invoked(r) == pc[r] = "predicting"

\* Nothing of the invocation is outstanding: no continuation is suspended
\* and the timer can no longer fire.
Finished(r) == Invoked(r) /\ pending[r] = {} /\ timer[r] # "armed"

\* The exit path that ran first.
FirstExit(r) == IF Len(trace[r]) = 0 THEN "none" ELSE trace[r][1]

Ran(r, h) == \E i \in 1..Len(trace[r]) : trace[r][i] = h

\* Batches a request has in a collection.
BatchesOf(store, r) == {i \in 1..Len(store) : store[i].req = r}

\* Clean success: the first exit path is 'close' with exit code 0 and a last
\* line that deserializes to a payload whose success flag is true.
CleanSuccess(r) ==
  /\ FirstExit(r) = "close"
  /\ proc[r].code = "0"
  /\ Parse(LastLine(outputData[r])).parsed
  /\ Parse(LastLine(outputData[r])).success

\* C1: a pricing request that started a predictor invocation never has more
\* than one response written, and has exactly one once nothing of the
\* invocation is outstanding (timer fired or disarmed, no insert pending).
C1_PricingOneResponse ==
  \A r \in Reqs :
    (op[r] = "pricing" /\ Invoked(r)) =>
       /\ Len(responses[r]) <= 1
       /\ Finished(r) => Len(responses[r]) = 1

\* 'error' then 'close' both ran their fallback; one response was written
\* and the second attempt threw.
C1_Witness ==
  \E r \in Reqs :
    /\ op[r] = "pricing"
    /\ trace[r] = <<"error", "close">>
    /\ Finished(r)
    /\ unhandled[r] = 1
    /\ Len(responses[r]) = 1

\* C2: once one exit path of a pricing invocation has begun handling the
\* outcome, every later exit path is a no-op: everything persisted, pending
\* or written for the request stems from the first exit path, and at most
\* one batch of recommendations is persisted per request.
C2_ExitPathsExclusive ==
  \A r \in Reqs :
    (op[r] = "pricing" /\ Invoked(r)) =>
       /\ \A c \in pending[r] : c.origin = FirstExit(r)
       /\ \A i \in BatchesOf(priceStore, r) : priceStore[i].origin = FirstExit(r)
       /\ \A i \in 1..Len(responses[r]) : responses[r][i].origin = FirstExit(r)
       /\ Cardinality(BatchesOf(priceStore, r)) <= 1

\* C3: a demand request that started a predictor invocation never has more
\* than one response written, and has exactly one once nothing of the
\* invocation is outstanding.
C3_DemandOneResponse ==
  \A r \in Reqs :
    (op[r] = "demand" /\ Invoked(r)) =>
       /\ Len(responses[r]) <= 1
       /\ Finished(r) => Len(responses[r]) = 1

\* Clean success of /predict: the insert settled after 'close', the response
\* was written once.
C3_Witness ==
  \E r \in Reqs :
    /\ op[r] = "demand"
    /\ trace[r] = <<"close">>
    /\ Cardinality(BatchesOf(forecastStore, r)) = 1
    /\ Finished(r)
    /\ Len(responses[r]) = 1

\* The response of the timeout path: fallback payload for pricing, the
\* 'Model prediction timeout' server error for demand.
TimeoutResponse(r, resp) ==
  /\ resp.origin = "timer"
  /\ IF op[r] = "pricing"
       THEN resp = FallbackResponse(r, "timer")
       ELSE resp.status = 500 /\ resp.error = "Model prediction timeout"

\* C4: if the timer callback is the first exit path, every response written
\* is the timeout response and nothing pending or persisted stems from a
\* later 'close' or 'error'; if 'close' or 'error' is the first exit path,
\* the timer callback never runs, the flag stays down, the child is never
\* signalled and the response stems from 'close' or 'error'.
C4_FirstExitPathWins ==
  \A r \in Reqs :
    Invoked(r) =>
      /\ FirstExit(r) = "timer" =>
           /\ \A i \in 1..Len(responses[r]) : TimeoutResponse(r, responses[r][i])
           /\ \A c \in pending[r] : c.origin = "timer"
           /\ \A i \in BatchesOf(priceStore, r) : priceStore[i].origin = "timer"
           /\ BatchesOf(forecastStore, r) = {}
      /\ FirstExit(r) \in {"close", "error"} =>
           /\ ~Ran(r, "timer")
           /\ ~responseTimeout[r]
           /\ proc[r].signal = "none"
           /\ \A i \in 1..Len(responses[r]) :
                 responses[r][i].origin \in {"close", "error"}
           /\ op[r] = "demand" =>
                \A i \in 1..Len(responses[r]) : responses[r][i].origin = FirstExit(r)

\* The timer fired, the late 'close' arrived, the fallback of the timer path
\* was persisted and sent.
C4_Witness ==
  \E r \in Reqs :
    /\ op[r] = "pricing"
    /\ trace[r] = <<"timer", "close">>
    /\ Cardinality(BatchesOf(priceStore, r)) = 1
    /\ Len(responses[r]) = 1

\* C5: once 'close', 'error' or the spawn-failure catch has run, the timer
\* is not armed, and the timer callback never runs after one of them; when
\* one of them ran first the child is never signalled.
C5_TimerDisarmedOnExit ==
  \A r \in Reqs :
    /\ (Ran(r, "close") \/ Ran(r, "error") \/ Ran(r, "catch")) => timer[r] # "armed"
    /\ FirstExit(r) \in {"close", "error", "catch"} => proc[r].signal = "none"
    /\ \A i, j \in 1..Len(trace[r]) :
         (i < j /\ trace[r][i] \in {"close", "error", "catch"}) => trace[r][j] # "timer"

\* 'close' ran while the timer was armed and disarmed it.
C5_Witness ==
  \E r \in Reqs : FirstExit(r) = "close" /\ timer[r] = "cleared" /\ HeadersSent(r)

FallbackShaped(resp) ==
  /\ resp.status = 200
  /\ resp.success
  /\ resp.note = FallbackNote
  /\ \A k \in 1..Len(resp.recs) :
        /\ resp.recs[k].model_version = "fallback-1.0"
        /\ resp.recs[k].confidence_score = FallbackConfidence

\* C6: a pricing request whose predictor outcome is not clean success gets,
\* whenever it gets a response, HTTP 200 with success true, the fallback
\* note, and only recommendations of model_version 'fallback-1.0' with
\* confidence 0.75; and it has got one once the invocation is finished.
C6_PricingFallsBack ==
  \A r \in Reqs :
    (op[r] = "pricing" /\ Invoked(r) /\ ~CleanSuccess(r)) =>
       /\ \A i \in 1..Len(responses[r]) :
             /\ FallbackShaped(responses[r][i])
             /\ Len(responses[r][i].recs) = Len(products[r])
       /\ Finished(r) => HeadersSent(r)

\* Exit code 0 with a last line whose success flag is false: fallback sent.
C6_Witness ==
  \E r \in Reqs :
    /\ op[r] = "pricing"
    /\ FirstExit(r) = "close"
    /\ proc[r].code = "0"
    /\ LastLine(outputData[r]) = "fail"
    /\ HeadersSent(r)

\* C7: a demand request whose predictor outcome is not clean success gets
\* only status-500, success-false responses and neither inserts nor has
\* inserted a DemandForecast batch; a request has a forecast batch (stored or
\* being inserted) only after clean success.
C7_DemandFailsLoudly ==
  \A r \in Reqs :
    (op[r] = "demand" /\ Invoked(r)) =>
       /\ ~CleanSuccess(r) =>
            /\ \A i \in 1..Len(responses[r]) :
                  responses[r][i].status = 500 /\ ~responses[r][i].success
            /\ Finished(r) => HeadersSent(r)
       /\ (BatchesOf(forecastStore, r) # {} \/ pending[r] # {}) => CleanSuccess(r)

\* The child wrote a well-formed success payload but exited non-zero.
C7_Witness ==
  \E r \in Reqs :
    /\ op[r] = "demand"
    /\ FirstExit(r) = "close"
    /\ proc[r].code = "1"
    /\ LastLine(outputData[r]) = "ok"
    /\ HeadersSent(r)

\* C8: under LiveSpec (the armed timer eventually fires, every insertMany
\* eventually settles) every request that started a predictor invocation
\* eventually has a response, whether or not the child ever exits.
C8_EventuallyResponds ==
  \A r \in Reqs : Invoked(r) ~> HeadersSent(r)

\* The child never wrote, never exited and survived the signal; the request
\* was answered by the timer path.
C8_Witness ==
  \E r \in Reqs :
    /\ trace[r] = <<"timer">>
    /\ proc[r].state = "running"
    /\ outputData[r] = <<>>
    /\ HeadersSent(r)

\* C9: after the timer callback has run, the child of the request is not
\* running any more, in either operation.
C9_KilledOnTimeout ==
  \A r \in Reqs : Ran(r, "timer") => proc[r].state # "running"

\* C10: when the resolver call rejected or timed out, the response is a
\* server error (status 500), in either operation.
C10_CatalogFailureIsServerError ==
  \A r \in Reqs :
    mapping[r] \in {"rejected", "timeout"} =>
       \A i \in 1..Len(responses[r]) : responses[r][i].status = 500


\* Nothing beyond the handler's own answer happened for the request.
NothingStarted(r) ==
  /\ pc[r] = "done"
  /\ proc[r] = NoProc
  /\ timer[r] = "none"
  /\ ~responseTimeout[r]
  /\ outputData[r] = <<>>
  /\ pending[r] = {}
  /\ trace[r] = <<>>
  /\ BatchesOf(priceStore, r) = {}
  /\ BatchesOf(forecastStore, r) = {}

\* C11: a request whose products field is missing, not an array or an empty
\* array is answered once with status 400 'Products array is required', and
\* for it the resolver is never called, no process is spawned, no timer is
\* armed and nothing is persisted, in either operation.
C11_InvalidBodyRejected ==
  \A r \in Reqs :
    body[r] \in {"missing", "notarray", "empty"} =>
       /\ responses[r] = <<Resp(400, FALSE, "Products array is required",
                                "", "", <<>>, <<>>, "validation")>>
       /\ mapping[r] = "none"
       /\ mapLate[r] = "none"
       /\ NothingStarted(r)

\* An empty array sent to /predict was rejected.
C11_Witness ==
  \E r \in Reqs : op[r] = "demand" /\ body[r] = "empty" /\ HeadersSent(r)

\* C12: when the resolver returned zero products the request is answered
\* once with status 400 'No valid products found after mapping' and no later
\* state is entered: no process, no deadline timer, no fallback, no insert.
C12_ZeroResolvedStops ==
  \A r \in Reqs :
    (mapping[r] = "resolved" /\ Len(products[r]) = 0) =>
       /\ responses[r] = <<Resp(400, FALSE, "No valid products found after mapping",
                                "", "", <<>>, <<>>, "mapping")>>
       /\ NothingStarted(r)

\* The resolver of a /recommend request matched nothing.
C12_Witness ==
  \E r \in Reqs :
    /\ op[r] = "pricing"
    /\ mapping[r] = "resolved"
    /\ Len(products[r]) = 0
    /\ HeadersSent(r)


\* C13: what a persisting path writes does not depend on whether its insert
\* succeeded: every response of a request that started an invocation is the
\* one its predictor outcome determines (external payload after clean
\* success, fallback payload otherwise for pricing), with status 200, whether
\* or not a batch reached the collection; and a finished request has it.
C13_PersistenceBestEffort ==
  \A r \in Reqs :
    Invoked(r) =>
      /\ \A i \in 1..Len(responses[r]) :
           LET resp == responses[r][i]
               external == IF Parse(LastLine(outputData[r])).items
                             THEN ExternalResponse(r, "close")
                             ELSE Resp(200, TRUE, "", "external", "", <<>>, <<>>, "close")
           IN  /\ (op[r] = "pricing" /\ CleanSuccess(r)) => resp = external
               /\ (op[r] = "pricing" /\ ~CleanSuccess(r)) =>
                     resp = FallbackResponse(r, resp.origin)
               /\ (op[r] = "demand" /\ CleanSuccess(r)) => resp = external
      /\ (Finished(r) /\ (op[r] = "pricing" \/ CleanSuccess(r))) => HeadersSent(r)

\* The external recommendations could not be saved; the caller got them.
C13_Witness ==
  \E r \in Reqs :
    /\ op[r] = "pricing"
    /\ CleanSuccess(r)
    /\ Parse(LastLine(outputData[r])).items
    /\ Finished(r)
    /\ BatchesOf(priceStore, r) = {}
    /\ Len(responses[r]) = 1 /\ responses[r][1].status = 200

\* C14: the predictor is spawned once per request that passed validation
\* and mapping and never again, whatever the outcome; unless spawn itself
\* threw, the payload was written to stdin once and stdin was ended.
C14_SpawnedOnce ==
  \A r \in Reqs :
    /\ proc[r].spawns <= 1
    /\ proc[r].writes <= 1
    /\ Invoked(r) <=> proc[r].spawns = 1
    /\ (Invoked(r) /\ proc[r].state # "threw") =>
          proc[r].writes = 1 /\ proc[r].stdinEnded

\* Timeout, late exit and the fallback all happened; still one spawn.
C14_Witness ==
  \E r \in Reqs :
    /\ trace[r] = <<"timer", "close">>
    /\ Finished(r)
    /\ proc[r].spawns = 1 /\ proc[r].writes = 1


\* The outcome the final line alone stands for.
OutcomeOfFinal(final) ==
  CASE final = Doc("T") -> [pricing |-> "persist",  demand |-> "persist"]
    [] final = Doc("E") -> [pricing |-> "respond",  demand |-> "respond"]
    [] final = Doc("F") -> [pricing |-> "fallback", demand |-> "modelfail"]
    [] OTHER            -> [pricing |-> "fallback", demand |-> "parsefail"]

\* C15: for stdout made of diagnostic lines followed by one final line, cut
\* into 'data' chunks at any byte positions, the way each route goes on exit
\* code 0 is the one the final line alone stands for: the external payload
\* when it is a JSON document with a true success flag, otherwise fallback
\* (pricing) and model failure / parse failure (demand); diagnostic lines,
\* JSON-looking ones included, never change it.
C15_FinalLineDecides ==
  par.result # <<>> => par.result[1] = OutcomeOfFinal(par.final)

\* A failure document was logged first, the result document came last with
\* a line terminator, and a chunk boundary fell inside it.
C15_Witness ==
  /\ par.diag = <<Doc("F")>>
  /\ par.final = Doc("T")
  /\ par.chunks = 3
  /\ Len(par.acc) > 5
  /\ par.acc[Len(par.acc)] = "n"
  /\ par.result = <<[pricing |-> "persist", demand |-> "persist"]>>

\* ------------------------------------------------- fallback engine claims
\* The rule table as the specification words it, over the values a rule is
\* applied to; the returned multiplier is compared with it in units of
\* 1/Scale.
RuleChain(demand, stock, days) ==
  (IF demand > 70 THEN 105 ELSE IF demand < 30 THEN 95 ELSE 100)
  * (IF stock < 50 THEN 103 ELSE IF stock > 200 THEN 97 ELSE 100)
  * (IF days <= 2 THEN 8 ELSE IF days <= 5 THEN 9 ELSE 10)

\* r is n/d rounded to the nearest integer (either neighbour at a tie).
Nearest(r, n, d) ==
  LET diff == r * d - n
  IN  2 * (IF diff < 0 THEN 0 - diff ELSE diff) <= (IF d < 0 THEN 0 - d ELSE d)

EngineRan == engOut # <<>>

AllSupplied ==
  /\ engIn.demand_score # <<>>
  /\ engIn.stock_level # <<>>
  /\ engIn.days_left # <<>>

\* C16: for every product whose demand_score, stock_level and days_left are
\* supplied numbers, 0 and negative values included, the multiplier is the
\* product of the factors the rule table selects from the supplied values,
\* and recommended_price is current_price times that multiplier rounded to
\* hundredths.
C16_RuleChainOnSuppliedValues ==
  (EngineRan /\ AllSupplied) =>
    LET m == RuleChain(engIn.demand_score[1], engIn.stock_level[1],
                       engIn.days_left[1])
    IN  /\ PriceMultiplier(engIn) = m
        /\ Nearest(engOut[1].recommended_price,
                   engOut[1].current_price * m, Scale)

NoneSupplied ==
  /\ engIn.current_price = <<>>
  /\ engIn.stock_level = <<>>
  /\ engIn.demand_score = <<>>
  /\ engIn.days_left = <<>>

\* C17: an absent current_price, stock_level, demand_score or days_left is
\* taken as 25.00, 100, 50 and 7, the rules are applied to those values, and
\* a product with all four absent gets multiplier 1, recommended price 25.00,
\* price change 0 and the reason 'Current price is optimal'.
C17_DefaultsWhenAbsent ==
  EngineRan =>
    LET out == engOut[1]
    IN  /\ engIn.current_price = <<>> => out.current_price = 2500
        /\ engIn.stock_level = <<>> => out.stock_level = 100
        /\ engIn.demand_score = <<>> => out.demand_score = 50
        /\ engIn.days_left = <<>> => out.days_left = 7
        /\ PriceMultiplier(engIn)
             = RuleChain(out.demand_score, out.stock_level, out.days_left)
        /\ NoneSupplied =>
             /\ PriceMultiplier(engIn) = Scale
             /\ out.recommended_price = 2500
             /\ out.price_change_percentage = 0
             /\ out.recommendation_reason = "Current price is optimal"

C17_Witness == EngineRan /\ NoneSupplied

\* The values the rules were applied to are the ones the record echoes.
OnlyDemandMayFire ==
  /\ engOut[1].stock_level \in 50..200
  /\ engOut[1].days_left > 5
OnlyStockMayFire ==
  /\ engOut[1].demand_score \in 30..70
  /\ engOut[1].days_left > 5
OnlyExpiryMayFire ==
  /\ engOut[1].demand_score \in 30..70
  /\ engOut[1].stock_level \in 50..200

\* C18: the thresholds are strict where the rule table says so.  With the
\* other two rules silent, demand_score 70 or 30 leaves the multiplier at 1,
\* stock_level 50 or 200 leaves it at 1, days_left 2 gives 0.80, days_left
\* 3, 4 and 5 give 0.90 and days_left 6 leaves it at 1; the returned price
\* follows the multiplier.
C18_StrictBoundaries ==
  EngineRan =>
    LET out == engOut[1]
        m   == PriceMultiplier(engIn)
    IN  /\ (OnlyDemandMayFire /\ out.demand_score \in {30, 70}) => m = Scale
        /\ (OnlyDemandMayFire /\ out.demand_score = 71) => 100 * m = 105 * Scale
        /\ (OnlyDemandMayFire /\ out.demand_score = 29) => 100 * m = 95 * Scale
        /\ (OnlyStockMayFire /\ out.stock_level \in {50, 200}) => m = Scale
        /\ (OnlyStockMayFire /\ out.stock_level = 49) => 100 * m = 103 * Scale
        /\ (OnlyStockMayFire /\ out.stock_level = 201) => 100 * m = 97 * Scale
        /\ (OnlyExpiryMayFire /\ out.days_left = 2) => 100 * m = 80 * Scale
        /\ (OnlyExpiryMayFire /\ out.days_left \in {3, 4, 5})
             => 100 * m = 90 * Scale
        /\ (OnlyExpiryMayFire /\ out.days_left = 6) => m = Scale
        /\ Nearest(out.recommended_price, out.current_price * m, Scale)

\* A product on three boundaries at once (70, 200, 6) keeps its price.
C18_Witness ==
  /\ EngineRan
  /\ engIn.demand_score = <<70>>
  /\ engIn.stock_level = <<200>>
  /\ engIn.days_left = <<6>>
  /\ engIn.current_price = <<4000>>
  /\ engOut[1].recommended_price = 4000

DemandFired == engOut[1].demand_score > 70 \/ engOut[1].demand_score < 30
StockFired  == engOut[1].stock_level < 50 \/ engOut[1].stock_level > 200
ExpiryFired == engOut[1].days_left <= 5

\* The reasons by rule, as the specification names them.
DemandReasons ==
  {"High demand detected - price increase recommended",
   "Low demand - price reduction to boost sales"}
StockReasons ==
  {"Low stock levels - price increase to manage demand",
   "High inventory levels - price reduction to clear stock"}
ExpiryReasons ==
  {"Product nearing expiry - urgent price reduction",
   "Product nearing expiry - price reduction to clear stock"}

TheExample ==
  /\ engIn.current_price = <<4000>>
  /\ engIn.stock_level = <<30>>
  /\ engIn.demand_score = <<80>>
  /\ engIn.days_left = <<1>>

\* C19: recommendation_reason is the reason of the last rule that fired in
\* the order demand, stock, expiry, and is 'Current price is optimal' exactly
\* when no rule fired; for {current_price 40, stock_level 30, demand_score
\* 80, days_left 1} the multiplier is 0.8652, the recommended price 34.61
\* and the reason the urgent near-expiry one.
C19_LastRuleGivesReason ==
  EngineRan =>
    LET reason == engOut[1].recommendation_reason
    IN  /\ ExpiryFired => reason \in ExpiryReasons
        /\ (StockFired /\ ~ExpiryFired) => reason \in StockReasons
        /\ (DemandFired /\ ~StockFired /\ ~ExpiryFired)
             => reason \in DemandReasons
        /\ reason = "Current price is optimal"
             <=> ~(DemandFired \/ StockFired \/ ExpiryFired)
        /\ (engOut[1].days_left <= 2)
             <=> reason = "Product nearing expiry - urgent price reduction"
        /\ TheExample =>
             /\ 10000 * PriceMultiplier(engIn) = 8652 * Scale
             /\ engOut[1].recommended_price = 3461
             /\ reason = "Product nearing expiry - urgent price reduction"

C19_Witness ==
  /\ EngineRan
  /\ TheExample
  /\ DemandFired /\ StockFired /\ ExpiryFired
  /\ engOut[1].recommended_price = 3461

\* C20 as stated: the returned price_change_percentage is 100 x (returned
\* recommended_price - current_price) / current_price rounded to hundredths,
\* i.e. the percentage is taken from the price after it was rounded.
C20_ChangeFromRoundedPrice ==
  EngineRan =>
    LET out == engOut[1]
    IN  Nearest(out.price_change_percentage,
                (out.recommended_price - out.current_price) * 100 * 100,
                out.current_price)

\* C20 as the code has it: the percentage is taken from the product
\* current_price x multiplier before that product is rounded, so the
\* returned price_change_percentage is 100 x (multiplier - 1) rounded to
\* hundredths whatever the price.
C20_ChangeFromUnroundedPrice ==
  EngineRan =>
    Nearest(engOut[1].price_change_percentage,
            (PriceMultiplier(engIn) - Scale) * 100 * 100, Scale)

\* 3.33 with high demand only: the price goes to 3.4965, returned as 3.50;
\* the percentage returned is 5.00 where the returned price implies 5.11.
C20_Witness ==
  /\ EngineRan
  /\ engIn.current_price = <<333>>
  /\ engIn.demand_score = <<80>>
  /\ engIn.stock_level = <<>>
  /\ engIn.days_left = <<>>
  /\ engOut[1].recommended_price = 350
  /\ engOut[1].price_change_percentage = 500
  /\ ~C20_ChangeFromRoundedPrice

\* C21: for every numeric input, zero and negative values included, the
\* engine returns a recommendation whose recommended_price and
\* price_change_percentage are finite numbers, and the percentage is never
\* computed with a zero divisor.
C21_AlwaysFinite ==
  EngineRan =>
    /\ engOut[1].current_price # 0
    /\ engOut[1].recommended_price_finite
    /\ engOut[1].price_change_finite

RanTwice == Len(engOut) = 2

OffTheClock(rec) ==
  [rec EXCEPT !.created_at = 0,
              !.valid_until = 0,
              !.weekday = IF engIn.weekday = <<>> THEN "" ELSE @,
              !.season = IF engIn.season = <<>> THEN "" ELSE @]

StoredDocAfter(id) == priceStore'[id[1]].docs[id[2]]

\* A step in which the apply route answered.
ApplyAnswered ==
  /\ apiRes' # apiRes
  /\ apiRes'[1].route = "apply"

\* C23 as stated: applying an identifier that matches a stored
\* recommendation leaves that record applied and answers with the updated
\* record, also when it was applied before; an identifier that matches none
\* is answered 404 and the store is unchanged.
C23_ApplyFlipsOrNotFound ==
  [][ApplyAnswered =>
       LET resp == apiRes'[1]
           id   == apiRes'[1].id[1]
       IN  IF Matches(id)
             THEN /\ resp.status = 200
                  /\ StoredDocAfter(id).is_applied
                  /\ resp.data = <<StoredDocAfter(id)>>
             ELSE /\ resp.status = 404
                  /\ priceStore' = priceStore]_vars

\* C23 with the case the statement leaves out: the above whenever the store
\* performs the operation, and a 500 answer with the store unchanged when
\* the store operation fails.
C23_ApplyFlipsNotFoundOrFails ==
  [][ApplyAnswered =>
       LET resp == apiRes'[1]
           id   == apiRes'[1].id[1]
       IN  IF ~resp.answered
             THEN /\ resp.status = 500
                  /\ ~resp.success
                  /\ priceStore' = priceStore
           ELSE IF Matches(id)
             THEN /\ resp.status = 200
                  /\ resp.success
                  /\ StoredDocAfter(id).is_applied
                  /\ resp.data = <<StoredDocAfter(id)>>
                  /\ \A other \in StoredDocs \ {id} :
                        StoredDocAfter(other) = StoredDoc(other)
             ELSE /\ resp.status = 404
                  /\ ~resp.success
                  /\ priceStore' = priceStore]_vars

\* An apply answered with the updated record while another stored
\* recommendation is still unapplied.
C23_Witness ==
  /\ apiRes # <<>>
  /\ apiRes[1].route = "apply"
  /\ apiRes[1].status = 200
  /\ Matches(apiRes[1].id[1])
  /\ apiRes[1].data = <<StoredDoc(apiRes[1].id[1])>>
  /\ StoredDoc(apiRes[1].id[1]).is_applied
  /\ \E other \in StoredDocs : ~StoredDoc(other).is_applied

\* A recommendation without its applied flag.
Unflagged(doc) == [doc EXCEPT !.is_applied = FALSE]

\* C24: whatever the routes do (recommend, apply, list, analytics), a stored
\* recommendation stays stored at its place with every field other than
\* is_applied as it was, batches are only ever added, and a step changes the
\* applied flag of at most the record the apply route was asked for.
C24_StoredIsImmutable ==
  [][/\ Len(priceStore') >= Len(priceStore)
     /\ \A id \in StoredDocs :
          /\ id[2] <= Len(priceStore'[id[1]].docs)
          /\ Len(priceStore'[id[1]].docs) = Len(priceStore[id[1]].docs)
          /\ Unflagged(StoredDocAfter(id)) = Unflagged(StoredDoc(id))
          /\ StoredDocAfter(id) # StoredDoc(id)
               => ApplyAnswered /\ apiRes'[1].id = <<id>>]_vars

\* Two batches stored, one recommendation applied and another one, in the
\* same batch, not.
C24_Witness ==
  /\ Len(priceStore) = 2
  /\ \E id \in StoredDocs, other \in StoredDocs :
       /\ id[1] = other[1]
       /\ StoredDoc(id).is_applied
       /\ ~StoredDoc(other).is_applied

\* C30: no step of any route takes an applied flag back from true to false,
\* and every recommendation the fallback engine stores starts unapplied.
C30_AppliedIsMonotone ==
  [][/\ \A id \in StoredDocs :
          StoredDoc(id).is_applied => StoredDocAfter(id).is_applied
     /\ Len(priceStore') > Len(priceStore) =>
          LET new == priceStore'[Len(priceStore')].docs
          IN  \A i \in 1..Len(new) :
                new[i].model_version = "fallback-1.0" => ~new[i].is_applied]_vars

\* A fallback recommendation that was stored unapplied and has been applied.
C30_Witness ==
  \E id \in StoredDocs :
    /\ StoredDoc(id).model_version = "fallback-1.0"
    /\ StoredDoc(id).is_applied
    /\ apiRes # <<>>
    /\ apiRes[1].route # "apply"

\* C26: every recommendation of the fallback engine is valid for exactly 24
\* hours from its creation, valid_until = created_at + 24 h, and is created
\* unapplied.
C26_ValidForADay ==
  EngineRan =>
    /\ engOut[1].valid_until = engOut[1].created_at + 24 * 60 * 60 * 1000
    /\ ~engOut[1].is_applied

\* ---------------------------------------------------------------------------
SameProduct(rec, product) ==
  /\ rec.product_id = product.product_id
  /\ rec.product_name = product.product_name
  /\ rec.category = product.category

FallbackResponses(r) ==
  {k \in 1..Len(responses[r]) : responses[r][k].note = FallbackNote}

\* C28: a fallback response carries exactly one recommendation per resolved
\* product of its request, in the order of the resolved products, each with
\* that product's identifier, name and category; total_recommendations is the
\* number of resolved products; and the list the fallback was computed from
\* is the list that was written to the predictor's stdin.
C28_FallbackCoversProducts ==
  \A r \in Reqs : \A k \in FallbackResponses(r) :
    LET resp == responses[r][k]
    IN  /\ TotalRecommendations(resp) = Len(products[r])
        /\ Len(resp.recs) = Len(products[r])
        /\ \A i \in 1..Len(resp.recs) : SameProduct(resp.recs[i], products[r][i])
        /\ proc[r].writes = 1 =>
              /\ Len(proc[r].stdin) = Len(resp.recs)
              /\ proc[r].stdin = products[r]
              /\ \A i \in 1..Len(resp.recs) :
                    /\ SameProduct(resp.recs[i], proc[r].stdin[i])
                    /\ resp.recs[i].weekday = proc[r].stdin[i].weekday[1]
                    /\ resp.recs[i].season = proc[r].stdin[i].season[1]

\* A fallback response for two resolved products that went to a predictor.
C28_Witness ==
  \E r \in Reqs : \E k \in FallbackResponses(r) :
    /\ Len(responses[r][k].recs) = MaxProducts
    /\ proc[r].writes = 1
    /\ responses[r][k].recs[1].product_id # responses[r][k].recs[2].product_id

\* ---------------------------------------------------------------------------
\* Everything of the request but the outstanding loser of the race.
RequestState(r) ==
  <<pc[r], op[r], mapping[r], products[r], proc[r], outputData[r],
    responseTimeout[r], timer[r], responses[r], pending[r], unhandled[r],
    trace[r], BatchesOf(priceStore, r), BatchesOf(forecastStore, r)>>

RaceLoserSettles(r) == mapLate[r] # "none" /\ mapLate'[r] = "none"

MappingTimedOut(r) == op[r] = "demand" /\ mapping[r] = "timeout"

\* C29: in the demand operation, when the 5-second timer wins the race
\* against product mapping the request is answered exactly once, with
\* 'Product mapping failed', no predictor is spawned and nothing is persisted
\* for it, also after the mapping call has completed; and when mapping wins,
\* the later expiry of the timer changes nothing of the request.
C29_MappingDeadline ==
  [][\A r \in Reqs :
       /\ MappingTimedOut(r)' =>
             /\ Len(responses'[r]) = 1
             /\ responses'[r][1].error = "Product mapping failed"
             /\ responses'[r][1].message = "Product mapping timeout"
             /\ NothingStarted(r)'
       /\ RaceLoserSettles(r) => RequestState(r)' = RequestState(r)]_vars

\* The timer won, the request was answered, and the mapping call completed
\* afterwards.
C29_Witness ==
  \E r \in Reqs : MappingTimedOut(r) /\ mapLate[r] = "none" /\ HeadersSent(r)

\* ---------------------------------------------------------------------------
\* The fallback engine has run for the request: its insertMany is awaited,
\* or it has stored or answered.
FallbackStarted(r) ==
  \/ \E c \in pending[r] : c.kind = "fallback"
  \/ FallbackResponses(r) # {}
  \/ \E i \in BatchesOf(priceStore, r) :
        \E k \in 1..Len(priceStore[i].docs) :
           priceStore[i].docs[k].model_version = "fallback-1.0"

\* The predictor of the request is known not to have succeeded: it timed
\* out, could not be started, or closed with a non-zero code, without a
\* parsable last line, or with success false.
NonSuccessObserved(r) ==
  \/ Ran(r, "timer")
  \/ Ran(r, "error")
  \/ Ran(r, "catch")
  \/ /\ Ran(r, "close")
     /\ \/ proc[r].code # "0"
        \/ LastLine(outputData[r]) \notin {"ok", "okempty"}

StateOrder == {<<"idle", "mapping">>, <<"idle", "done">>,
               <<"mapping", "predicting">>, <<"mapping", "done">>}

\* The response a step writes for r, as <<>> or <<response>>.
NewResponse(r) ==
  IF Len(responses'[r]) > Len(responses[r])
    THEN <<responses'[r][Len(responses'[r])]>> ELSE <<>>

\* The response carries records that were handed to insertMany.
AfterPersisting(resp) ==
  resp.status = 200 /\ resp.success /\ resp.recs # <<>>

\* C27: the handler only moves forward through its states; a predictor is
\* spawned only after mapping resolved with at least one product; the
\* fallback engine has run only when a non-success outcome of the request's
\* predictor was observed; and a success or fallback response with records
\* is written only by the step in which its insertMany settles, resolved or
\* rejected.
C27_StateOrder ==
  [][\A r \in Reqs :
       /\ pc'[r] # pc[r] => <<pc[r], pc'[r]>> \in StateOrder
       /\ proc'[r].spawns > 0 =>
             /\ mapping'[r] = "resolved"
             /\ Len(products'[r]) >= 1
             /\ pc'[r] = "predicting"
       /\ FallbackStarted(r)' =>
             /\ op'[r] = "pricing"
             /\ proc'[r].spawns > 0
             /\ NonSuccessObserved(r)'
       /\ \A k \in 1..Len(NewResponse(r)) :
             AfterPersisting(NewResponse(r)[k]) =>
               \E c \in pending[r] \ pending'[r] :
                  /\ c.origin = NewResponse(r)[k].origin
                  /\ c.kind = IF NewResponse(r)[k].note = FallbackNote
                                THEN "fallback" ELSE "success"]_vars

\* A request whose predictor failed got its fallback response after the
\* insertMany of the fallback was rejected.
C27_Witness ==
  \E r \in Reqs :
    /\ op[r] = "pricing" /\ pc[r] = "predicting"
    /\ Ran(r, "close") /\ proc[r].code = "1"
    /\ FallbackResponses(r) # {}
    /\ BatchesOf(priceStore, r) = {}
    /\ pending[r] = {}

\* ---------------------------------------------------------------------------
\* The records of a collection that came from request q's product.
RecordsOf(store, q) ==
  SelectSeq(store, LAMBDA b :
    \E k \in 1..Len(b.docs) : b.docs[k].product_id = PairProducts(q)[1].product_id)

\* Everything that belongs to request q.
PairState(q) ==
  <<pc[q], op[q], body[q], mapping[q], mapLate[q], products[q], proc[q],
    outputData[q], responseTimeout[q], timer[q], responses[q], pending[q],
    unhandled[q], trace[q], RecordsOf(priceStore, q), RecordsOf(forecastStore, q)>>

\* What request q was given and what became of its predictor.
InputAndOutcome(q) ==
  <<op[q], body[q], mapping[q], Len(products[q]), proc[q].state, proc[q].code,
    proc[q].errored, proc[q].closed, proc[q].signal, outputData[q], trace[q],
    pending[q]>>

\* The response bodies without the identity of the products in them.
Shape(resps) ==
  [k \in 1..Len(resps) |->
     <<resps[k].status, resps[k].success, resps[k].error, resps[k].message,
       resps[k].note, Len(resps[k].recs), resps[k].raw>>]

\* Responses and stored records of q name q's product only.
OwnProductsOnly(q) ==
  /\ \A k \in 1..Len(responses[q]) : \A i \in 1..Len(responses[q][k].recs) :
        responses[q][k].recs[i].product_id = PairProducts(q)[1].product_id
  /\ \A st \in {priceStore, forecastStore} : \A i \in 1..Len(st) :
        st[i].req = q =>
          \A k \in 1..Len(st[i].docs) :
             st[i].docs[k].product_id = PairProducts(q)[1].product_id

\* C25: with two requests in flight, a step of one request (its timer, the
\* exit or the error of its process, a settled insertMany) leaves the
\* response, the stored records, the flag, the timer, the process and the
\* buffers of the other request as they were; what a request answers and
\* stores names its own products only; and two requests with the same input
\* shape and the same predictor outcome have answered alike.
C25_RequestsIsolated ==
  [][/\ \E r \in Pair : \A q \in Pair \ {r} : PairState(q)' = PairState(q)
     /\ \A q \in Pair : OwnProductsOnly(q)'
     /\ InputAndOutcome("r1")' = InputAndOutcome("r2")' =>
           Shape(responses'["r1"]) = Shape(responses'["r2"])]_vars

\* Both requests are in flight on the pricing route; the timer of one has
\* fired and answered with the fallback while the other, still waiting with
\* its timer armed and its flag down, has no answer yet.
C25_Witness ==
  /\ DOMAIN pc = Pair
  /\ op["r1"] = "pricing" /\ op["r2"] = "pricing"
  /\ Ran("r1", "timer") /\ responseTimeout["r1"]
  /\ FallbackResponses("r1") # {}
  /\ RecordsOf(priceStore, "r1") # <<>>
  /\ pc["r2"] = "predicting" /\ timer["r2"] = "armed"
  /\ ~responseTimeout["r2"] /\ ~HeadersSent("r2")

\* ---------------------------------------------------------------------------
\* A step in which an analytics route answers.
AnalyticsAnswers ==
  /\ apiRes' # apiRes
  /\ apiRes'[1].route \in AnalyticsRoutes

ReadStore(resp) ==
  IF resp.route = "demand-analytics" THEN forecastStore ELSE priceStore

\* The stored documents a response speaks about: those of the collection of
\* its route that pass the category filter and the date window of its query.
InScope(resp) ==
  LET store  == ReadStore(resp)
      date   == IF resp.route = "demand-analytics" THEN "forecast_date"
                ELSE "created_at"
      window == resp.query.from # <<>> \/ resp.route = "optimization-summary"
      start  == IF resp.query.from # <<>> THEN resp.query.from[1]
                ELSE 0 - 7 * DayMs
  IN  {id \in DocIds(store) :
         /\ resp.query.category # <<>> =>
               /\ "category" \in DOMAIN store[id[1]].docs[id[2]]
               /\ <<store[id[1]].docs[id[2]].category>> = resp.query.category
         /\ window =>
               /\ date \in DOMAIN store[id[1]].docs[id[2]]
               /\ store[id[1]].docs[id[2]][date] >= start}

Applied(resp, ids) ==
  {id \in ids : ReadStore(resp)[id[1]].docs[id[2]].is_applied}

\* The group a stored document falls into: its category, or its product for
\* ?group_by=product of the pricing analytics; <<>> without that field.
GroupOf(resp, id) ==
  LET doc == ReadStore(resp)[id[1]].docs[id[2]]
      f   == IF resp.route = "analytics" /\ resp.query.group_by = <<"product">>
               THEN "product_id" ELSE "category"
  IN  IF f \notin DOMAIN doc THEN <<>>
      ELSE IF f = "product_id" THEN <<<<"product", doc.product_id>>>>
      ELSE <<doc.category>>

\* The data of a response are the counts of the stored documents in scope.
Reflects(resp) ==
  IF resp.route = "optimization-summary"
    THEN /\ resp.data[1].total_products = Cardinality(InScope(resp))
         /\ resp.data[1].total_applied = Cardinality(Applied(resp, InScope(resp)))
    ELSE /\ \A id \in InScope(resp) :
              \E g \in resp.data[1].groups : g._id = GroupOf(resp, id)
         /\ \A g \in resp.data[1].groups :
              LET members == {id \in InScope(resp) : GroupOf(resp, id) = g._id}
              IN  /\ members # {}
                  /\ g.total = Cardinality(members)
                  /\ g.applied = Cardinality(Applied(resp, members))
         /\ \A g, h \in resp.data[1].groups : g._id = h._id => g = h

\* C31: the analytics routes (GET /analytics and GET /optimization-summary
\* of pricing, GET /analytics of demand) always answer 200 with success
\* true; when the store query failed the answer is the fixed mock data with
\* the note 'Mock data - database not available'; and an answer without
\* that note is computed from the records stored at that moment.
C31_AnalyticsNeverFail ==
  [][AnalyticsAnswers =>
       LET resp == apiRes'[1]
       IN  /\ resp.status = 200
           /\ resp.success
           /\ ~resp.answered =>
                 /\ resp.note = "Mock data - database not available"
                 /\ resp.data = MockData(resp.route)
           /\ resp.note # "Mock data - database not available" =>
                 /\ resp.answered
                 /\ Reflects(resp)]_vars

\* The store holds recommendations, one of them applied, and the last
\* analytics query failed: the answer is the marked mock data.
C31_Witness ==
  /\ apiRes # <<>>
  /\ apiRes[1].route \in AnalyticsRoutes
  /\ ~apiRes[1].answered
  /\ apiRes[1].status = 200
  /\ apiRes[1].note = MockNote
  /\ \E id \in StoredDocs : StoredDoc(id).is_applied

====
